---------------------------- MODULE Spec2Model ----------------------------
(***************************************************************************)
(* torch-liquidation-kit: the vault-routed liquidation bot.                *)
(*                                                                         *)
(* The model follows src/clawhub/lib/kit/index.js (first module of the     *)
(* file, lines 1-148): main() runs the preflight (getVault,                *)
(* getVaultForWallet), then the scan loop; scanAndLiquidate() discovers    *)
(* the tokens, retrieves each token's loan positions and liquidates the    *)
(* leading run of 'liquidatable' positions (build, sign, send, confirm).   *)
(* One action is one external call of the code, awaited, together with    *)
(* the synchronous code that follows it up to the next call; signing, the  *)
(* one synchronous step of the executor, is an action of its own.          *)
(*                                                                         *)
(* The SDK and the RPC connection are the environment: every call picks    *)
(* its latency, whether it resolves or rejects, and the rejected value.    *)
(*                                                                         *)
(* Spec starts where the configuration is loaded and the keypair           *)
(* determined; SpecConfig runs main() from its first line, loadConfig()    *)
(* of src/clawhub/lib/kit/config.js included, up to the entry of the scan  *)
(* loop, over the environments the process can be started in.  SpecHistory *)
(* and SpecPending are Spec with the history of one position kept across   *)
(* the cycles.  SpecDecode applies decodeBase58 of                         *)
(* src/packages/bot/src/utils.ts to every text of a bounded set.           *)
(***************************************************************************)
EXTENDS Integers, Sequences, FiniteSets, TLC

\* ------------------------------------------------------------------------
\* bounds of the model
\* ------------------------------------------------------------------------
MaxTokens == 2

\* length of the texts decodeBase58 is applied to
MaxText == 3

MaxPos == 2

\* ------------------------------------------------------------------------
\* program constants
\* ------------------------------------------------------------------------
\* deadline of the timeout wrapper, in seconds
SDK_TIMEOUT == 30

\* latency of an operation that never settles
Never == -1

\* latencies the environment picks from: just before the deadline, one unit
\* after the deadline (a late completion), never
Latencies == {SDK_TIMEOUT - 1, SDK_TIMEOUT + 1, Never}

\* the health tiers of the SDK's LoanPositionInfo
Health == {"liquidatable", "at_risk", "healthy", "none"}

\* what a rejected promise can carry: an Error object (it has .message), or
\* null / undefined (reading .message of it throws a TypeError)
ThrownValues == {"Error", "Nullish"}

\* how an operation settles, if it does
Outcomes == {"ok"} \cup ThrownValues

\* how an operation of latency lat can have settled when the caller stops
\* waiting for it: one that outlasts the deadline is still pending then
OutcomesAt(lat) == IF lat # Never /\ lat < SDK_TIMEOUT THEN Outcomes ELSE {"pending"}

\* labels of the calls wrapped by withTimeout
GetTokensLabel == "getTokens"

GetAllLoanPositionsLabel == "getAllLoanPositions"

\* a label pasted from another call site
BuildLabelPasted == "getAllLoanPositions"

BuildLabel == "buildLiquidateTransaction"

ConfirmLabel == "confirmTransaction"

GetVaultLabel == "getVault"

GetVaultForWalletLabel == "getVaultForWallet"

\* values of VAULT_CREATOR the bot can be configured with
Creators == {"creatorA"}

\* the agent keypair main() determined
AgentKeys == {"agentKeyA"}

\* agentKeypair.publicKey.toBase58()
toBase58(key) == CASE key = "agentKeyA" -> "AgentA58"
                   [] key = "agentKeyS" -> "AgentS58"

\* ------------------------------------------------------------------------
\* logger (createLogger)
\* ------------------------------------------------------------------------
LEVEL_ORDER == <<"debug", "info", "warn", "error">>

LevelIdx(level) == CHOOSE i \in 1..Len(LEVEL_ORDER) : LEVEL_ORDER[i] = level

\* the logger printing only what is above the minimum level
EmitsAbove(min, level) == LevelIdx(level) > LevelIdx(min)

\* log(level, msg) prints unless the level is below the minimum level
Emits(min, level) == ~(LevelIdx(level) < LevelIdx(min))

\* records of one cycle, counted by kind
CycleKinds == {"cycleStart", "discovered", "activeLoans", "LIQUIDATABLE",
               "LIQUIDATED", "FAILED", "cycleError", "cycleEnd"}

LevelOf(kind) ==
    CASE kind \in {"cycleStart", "discovered", "activeLoans", "cycleEnd"} -> "debug"
      [] kind \in {"LIQUIDATABLE", "LIQUIDATED", "vaultFound", "startingLoop", "treasury",
                  "loadedKeypair", "generatedKeypair"} -> "info"
      [] kind = "FAILED" -> "warn"
      [] kind = "cycleError" -> "error"

NoRecords == [k \in CycleKinds |-> 0]

\* ------------------------------------------------------------------------
\* timeout wrapper: races the operation against the deadline
\* ------------------------------------------------------------------------
Settled(kind, label) == [kind |-> kind, label |-> label]

withTimeout(lat, res, label) ==
    IF lat # Never /\ lat < SDK_TIMEOUT
    THEN Settled(res, "")
    ELSE Settled("Timeout", label)

\* time the caller spent waiting on the wrapped call
Waited(lat) == IF lat # Never /\ lat < SDK_TIMEOUT THEN lat ELSE SDK_TIMEOUT

\* only Error objects taken to have a message
HasMessageErrorOnly(err) == err.kind = "Error"

\* err.message: a property read throws on null / undefined
HasMessage(err) == err.kind # "Nullish"

TypeError == Settled("TypeError", "")

NoCall ==
    [fn |-> "none", label |-> "none", lat |-> 0, res |-> "ok",
     got |-> Settled("ok", ""), waited |-> 0]

\* withTimeout(fn(...), label): fn is the SDK function that was called
Call(fn, label, lat, res) ==
    [fn |-> fn, label |-> label, lat |-> lat, res |-> res,
     got |-> withTimeout(lat, res, label), waited |-> Waited(lat)]

\* the operation of a timed-out call keeps running: it is not cancelled.
\* The set holds the abandoned operations that will still settle.
Abandon(bg, call) ==
    IF call.got.kind = "Timeout" /\ call.lat # Never THEN bg \cup {call.fn} ELSE bg

\* An abandoned operation settles one unit after its deadline (Latencies),
\* and every awaited call and the sleep take longer than that: when an
\* awaited call returns, the operation abandoned before it has settled.
Drained(bg) == bg = {}

VARIABLES
    pc,          \* where main() is: the call it makes next, or sleeping / exited / blocked
    exitCode,    \* process exit status, -1 while running
    minLevel,    \* config.logLevel
    vaultCreator, \* config.vaultCreator
    agent,       \* agentKeypair
    linkHelp,    \* the linkage instructions printed, NoInstructions if none
    vault,       \* result of the preflight getVault: unknown / present / absent
    link,        \* result of the preflight getVaultForWallet
    inLoop,      \* the while (true) loop has been entered
    everCalled,  \* labels of the external calls made so far
    startupOut,  \* records printed outside the cycles
    tokens,      \* number of tokens of the current cycle (tokens are 1..tokens)
    tokenIdx,    \* token being processed
    positions,   \* position list of the current token (health of each)
    posIdx,      \* position being processed
    retrievals,  \* getAllLoanPositions calls of the current cycle
    invoked,     \* positions of the current token the executor was invoked for
    steps,       \* steps of the current attempt that succeeded
    attemptOut,  \* records emitted by the current attempt
    out,         \* records emitted in the current cycle, by kind
    background,  \* abandoned operations that are still in flight
    lastCall,    \* the wrapped call the last step made, NoCall if none
    track,       \* history: the positions whose liquidations the run records
    liquidatedNow,  \* history: positions liquidated in the current cycle
    liquidatedPrev, \* history: positions liquidated in the previous cycle
    vaultChecked,   \* the creator the preflight getVault was called with
    request,        \* parameters of the current attempt's build request
    lookups,        \* number of calls of each preflight lookup so far
    prevPc,         \* history: where main() was before its last step
    prevOut,        \* history: the cycle's records before that step
    env,            \* process.env: the variables that are set, with their values
    config,         \* what loadConfig() returned, NoConfig before it has
    linkChecked,    \* the wallet the preflight getVaultForWallet was called with
    txn,            \* the current attempt's transaction: signer, signature, confirmation
    discovery,      \* parameters of the last getTokens request
    late,           \* the abandoned operation that settled in the last step, if one did
    trackTx,        \* history: the positions whose submitted transactions the run counts
    unresolved,     \* history: their transactions submitted and not yet resolved
    text,           \* the string a call of decodeBase58 is made with
    decoded         \* what that call returned or threw, NoDecoded before it

vars == <<text, decoded, env, config, linkChecked, txn, discovery, late, trackTx, unresolved,
          pc, exitCode, minLevel, vaultCreator, agent, linkHelp, vault, link, inLoop,
          everCalled, startupOut,
          tokens, tokenIdx, positions, posIdx, retrievals, invoked, steps,
          attemptOut, out, background, lastCall, track, liquidatedNow, liquidatedPrev,
          vaultChecked, request, lookups, prevPc, prevOut>>

cycleVars == <<tokens, tokenIdx, positions, posIdx, retrievals, invoked, steps,
               attemptOut, out, request, txn>>

\* token.mint of the token at index t of the discovered list
Mint(t) == <<"mint", t>>

\* position.borrower of the position at index i of token t's list
Borrower(t, i) == <<"borrower", t, i>>

NoRequest == [mint |-> <<>>, liquidator |-> "", borrower |-> <<>>, vault |-> ""]

NoLate == [fn |-> "none", res |-> "ok"]

NoDiscovery == [status |-> "", sort |-> "", limit |-> 0]

NoSignature == <<>>

\* the signature sendRawTransaction returns for the transaction of position
\* i of token t
Signature(t, i) == <<"signature", t, i>>

NoTxn == [signedBy |-> "", signature |-> NoSignature,
          confirmSignature |-> NoSignature, confirmWallet |-> ""]

histVars == <<track, liquidatedNow, liquidatedPrev>>

\* history: the position of a confirmed liquidation, where it is recorded
Record(done, t, i) == done \cup ({<<t, i>>} \cap track)

\* bound of the count of unresolved transactions
MaxUnresolved == 2

\* history: the count after sendRawTransaction accepted a transaction for
\* position i of token t
Submitted(n, t, i) == IF <<t, i>> \in trackTx THEN n + 1 ELSE n

\* history: the count after the transaction of position i of token t was
\* confirmed or failed
Resolved(n, t, i) == IF <<t, i>> \in trackTx /\ n > 0 THEN n - 1 ELSE n

\* one liquidation attempt: the position it is for, the records it emitted,
\* the step that threw and whether the error left the executor
NoAttempt ==
    [unit |-> 0, borrower |-> 0, warn |-> 0, named |-> <<>>, liquidated |-> 0,
     failedAt |-> "none", threw |-> "none", propagated |-> FALSE]

NoInstructions == [vault_creator |-> "", wallet_to_link |-> ""]

startVars == <<env, config, trackTx, text, decoded>>

\* ------------------------------------------------------------------------
\* configuration (config.js)
\* ------------------------------------------------------------------------
EnvNames == {"RPC_URL", "SOLANA_RPC_URL", "VAULT_CREATOR", "SOLANA_PRIVATE_KEY",
             "SCAN_INTERVAL_MS", "LOG_LEVEL"}

\* process.env[name] is undefined
Unset(e, name) == name \notin DOMAIN e

\* !process.env[name]: undefined or the empty string
Falsy(e, name) == Unset(e, name) \/ e[name] = ""

\* process.env[name] ?? dflt
OrElse(e, name, dflt) == IF Unset(e, name) THEN dflt ELSE e[name]

Digits == <<"0", "1", "2", "3", "4", "5", "6", "7", "8", "9">>

IsDigit(c) == \E d \in 1..Len(Digits) : Digits[d] = c

DigitVal(c) == (CHOOSE d \in 1..Len(Digits) : Digits[d] = c) - 1

NaN == [nan |-> TRUE, val |-> 0]

Num(n) == [nan |-> FALSE, val |-> n]

isNaN(x) == x.nan

RECURSIVE DigitRun(_, _, _)
\* value of the longest run of digits of s that starts at index i
DigitRun(s, i, acc) ==
    IF i <= Len(s) /\ IsDigit(s[i])
    THEN DigitRun(s, i + 1, 10 * acc + DigitVal(s[i]))
    ELSE acc

\* parseInt(s, 10), s a string given as the sequence of its characters:
\* leading white space is skipped, a sign is read, then the longest run of
\* digits; what follows the digits is ignored, NaN when there is no digit
parseInt(s) ==
    LET white == {k \in 1..Len(s) : \A m \in 1..k : s[m] = " "}
        i == Cardinality(white) + 1
        signed == i <= Len(s) /\ s[i] \in {"+", "-"}
        j == IF signed THEN i + 1 ELSE i
    IN IF j <= Len(s) /\ IsDigit(s[j])
       THEN Num(IF signed /\ s[i] = "-" THEN 0 - DigitRun(s, j, 0) ELSE DigitRun(s, j, 0))
       ELSE NaN

DefaultInterval == <<"3", "0", "0", "0", "0">>

MinInterval == 5000

LOG_LEVELS == {"debug", "info", "warn", "error"}

NoConfig == [rpcUrl |-> "", vaultCreator |-> "", scanIntervalMs |-> 0, logLevel |-> ""]

Thrown(msg) == [ok |-> FALSE, value |-> NoConfig, error |-> msg]

\* isNaN(scanIntervalMs) || scanIntervalMs < 5000
TooShort(n) == isNaN(n) \/ n.val < MinInterval

\* loadConfig(): the configuration, or the error it throws
loadConfig(e) ==
    LET scanIntervalMs == parseInt(OrElse(e, "SCAN_INTERVAL_MS", DefaultInterval))
        logLevel == OrElse(e, "LOG_LEVEL", "info")
    IN IF Falsy(e, "RPC_URL") THEN Thrown("RPC_URL env var is required")
       ELSE IF Falsy(e, "VAULT_CREATOR") THEN Thrown("VAULT_CREATOR env var is required")
       ELSE IF TooShort(scanIntervalMs)
       THEN Thrown("SCAN_INTERVAL_MS must be a number >= 5000")
       ELSE IF logLevel \notin LOG_LEVELS THEN Thrown("LOG_LEVEL must be one of")
       ELSE [ok |-> TRUE, error |-> "",
             value |-> [rpcUrl |-> e["RPC_URL"], vaultCreator |-> e["VAULT_CREATOR"],
                        scanIntervalMs |-> scanIntervalMs.val, logLevel |-> logLevel]]

\* config.privateKey: loadConfig() returns no such property; undefined and
\* the empty string are both falsy
PrivateKey(cfg) == IF "privateKey" \in DOMAIN cfg THEN cfg["privateKey"] ELSE <<>>

\* ------------------------------------------------------------------------
\* base58 (packages/bot/src/utils.ts); a string is the sequence of its
\* characters
\* ------------------------------------------------------------------------
B58 ==
    <<"1", "2", "3", "4", "5", "6", "7", "8", "9",
      "A", "B", "C", "D", "E", "F", "G", "H", "J", "K", "L", "M", "N",
      "P", "Q", "R", "S", "T", "U", "V", "W", "X", "Y", "Z",
      "a", "b", "c", "d", "e", "f", "g", "h", "i", "j", "k",
      "m", "n", "o", "p", "q", "r", "s", "t", "u", "v", "w", "x", "y", "z">>

\* B58.indexOf(c): the position from 0, -1 when c is not in the alphabet
B58indexOf(c) ==
    IF \E k \in 1..Len(B58) : B58[k] = c
    THEN (CHOOSE k \in 1..Len(B58) : B58[k] = c) - 1
    ELSE 0 - 1

\* carry & 0xff and carry >> 8; carry is never above 57 + 255 * 58, so the
\* 32-bit operators are the remainder and the quotient by 256
LowByte(carry) == carry % 256

Shr8(carry) == carry \div 256

\* the inner loops for one character: result (least significant byte
\* first) is multiplied by 58 and the digit added, then the carry is pushed
RECURSIVE MulAdd(_, _, _)
MulAdd(result, j, carry) ==
    IF j <= Len(result)
    THEN LET c == carry + result[j] * 58
         IN MulAdd([result EXCEPT ![j] = LowByte(c)], j + 1, Shr8(c))
    ELSE IF carry > 0
    THEN MulAdd(Append(result, LowByte(carry)), j + 1, Shr8(carry))
    ELSE result

DecodeThrown(c) == [ok |-> FALSE, bytes |-> <<>>, invalid |-> c]

\* the loop over the characters, from character i on
RECURSIVE DecodeFrom(_, _, _)
DecodeFrom(s, i, result) ==
    IF i > Len(s) THEN [ok |-> TRUE, bytes |-> result, invalid |-> ""]
    ELSE IF B58indexOf(s[i]) < 0 THEN DecodeThrown(s[i])
    ELSE DecodeFrom(s, i + 1, MulAdd(result, 1, B58indexOf(s[i])))

\* passes of the last loop from character i on:
\* for (i = 0; i < s.length && s[i] === '1'; i++)
RECURSIVE OnesFrom(_, _)
OnesFrom(s, i) == IF i <= Len(s) /\ s[i] = "1" THEN 1 + OnesFrom(s, i + 1) ELSE 0

LeadingOnesNone(s) == 0

\* the zero bytes the last loop pushes
LeadingOnes(s) == OnesFrom(s, 1)

Zeros(n) == [k \in 1..n |-> 0]

\* result.reverse()
Reverse(r) == [k \in 1..Len(r) |-> r[Len(r) + 1 - k]]

\* no call made yet
NoDecoded == [ok |-> FALSE, bytes |-> <<>>, invalid |-> ""]

\* decodeBase58(s): the bytes, or the character the error names
decodeBase58(s) ==
    LET d == DecodeFrom(s, 1, <<>>)
    IN IF d.ok
       THEN [d EXCEPT !.bytes = Reverse(d.bytes \o Zeros(LeadingOnes(s)))]
       ELSE d

\* ------------------------------------------------------------------------
\* agent keypair from SOLANA_PRIVATE_KEY (index.js 78-95)
\* ------------------------------------------------------------------------
\* the secret key of the wallet the operator owns, as bytes
SecretBytes == <<1, 2>>

\* values of SOLANA_PRIVATE_KEY the bot can be started with: the secret as a
\* JSON byte array and in base58, an array that is no secret key, JSON that
\* is no array, text that is neither JSON nor base58, and base58 of bytes
\* that are no secret key
Secrets ==
    {<<"[", "1", ",", "2", "]">>, <<"5", "T">>, <<"[", "7", "]">>, <<"7">>,
     <<"{", "}">>, <<"0", "x">>, <<"z", "z">>}

NoKey == [ok |-> FALSE, key |-> "", error |-> ""]

KeyThrown(msg) == [NoKey EXCEPT !.error = msg]

\* Keypair.fromSecretKey(bytes): the keypair, or the error it throws
fromSecretKey(bytes) ==
    IF bytes = SecretBytes
    THEN [ok |-> TRUE, key |-> "agentKeyS", error |-> ""]
    ELSE KeyThrown("bad secret key")

\* end of the digit run that starts at character i
RECURSIVE RunEnd(_, _)
RunEnd(s, i) == IF i <= Len(s) /\ IsDigit(s[i]) THEN RunEnd(s, i + 1) ELSE i

\* a JSON number of the texts of the model: digits, no leading zero
NumberAt(s, i) ==
    /\ RunEnd(s, i) > i
    /\ s[i] = "0" => RunEnd(s, i) = i + 1

NotJSON == [kind |-> "SyntaxError", items |-> <<>>]

\* the elements of a JSON array of numbers, from character i on
RECURSIVE Elements(_, _, _)
Elements(s, i, items) ==
    IF ~NumberAt(s, i) THEN NotJSON
    ELSE LET e == RunEnd(s, i)
             more == Append(items, DigitRun(s, i, 0))
         IN IF e = Len(s) /\ s[e] = "]" THEN [kind |-> "array", items |-> more]
            ELSE IF e < Len(s) /\ s[e] = "," THEN Elements(s, e + 1, more)
            ELSE NotJSON

\* JSON.parse(s) on the texts of the model: an array of numbers, a number,
\* the empty object, or a SyntaxError
JSONparse(s) ==
    IF s = <<"[", "]">> THEN [kind |-> "array", items |-> <<>>]
    ELSE IF Len(s) > 2 /\ s[1] = "[" THEN Elements(s, 2, <<>>)
    ELSE IF Len(s) > 0 /\ NumberAt(s, 1) /\ RunEnd(s, 1) = Len(s) + 1
    THEN [kind |-> "number", items |-> <<>>]
    ELSE IF s = <<"{", "}">> THEN [kind |-> "object", items |-> <<>>]
    ELSE NotJSON

\* Uint8Array.from(parsed)
Uint8ArrayFrom(items) == [k \in 1..Len(items) |-> items[k] % 256]

\* e.message?.includes('byte array')
IncludesByteArray(msg) == msg = "SOLANA_PRIVATE_KEY JSON must be a byte array"

\* the try block, line 79-87
KeyTry(secret) ==
    LET parsed == JSONparse(secret)
    IN IF parsed.kind = "SyntaxError" THEN KeyThrown("SyntaxError")
       ELSE IF parsed.kind = "array" THEN fromSecretKey(Uint8ArrayFrom(parsed.items))
       ELSE KeyThrown("SOLANA_PRIVATE_KEY JSON must be a byte array")

\* the catch block, line 88-93
KeyCatch(secret, e) ==
    IF IncludesByteArray(e.error) THEN e
    ELSE LET plain == decodeBase58(secret)
         IN IF plain.ok THEN fromSecretKey(plain.bytes)
            ELSE KeyThrown("invalid base58 character")

\* the keypair of a configured secret, or the error that leaves main()
KeyFrom(secret) ==
    LET tried == KeyTry(secret)
    IN IF tried.ok THEN tried ELSE KeyCatch(secret, tried)

\* the environment of a run that got through loadConfig() with this level
\* and this vault creator
EnvOf(level, creator) ==
    ("RPC_URL" :> "rpcA") @@ ("VAULT_CREATOR" :> creator) @@ ("LOG_LEVEL" :> level)

\* log() of a startup record
LogStartup(s, kind) == IF Emits(minLevel, LevelOf(kind)) THEN s \cup {kind} ELSE s

\* console.log of the banner: agent wallet, vault creator, scan interval
Banner(s) == s \cup {"banner"}

\* state of main() at line 105: configuration loaded, keypair determined
Startup(levels, history, pending) ==
    /\ pc = "getVault"
    /\ trackTx \in pending
    /\ text = <<>>
    /\ decoded = NoDecoded
    /\ unresolved = 0
    /\ exitCode = -1
    /\ minLevel \in levels
    /\ track \in history
    /\ vaultChecked = ""
    /\ request = NoRequest
    /\ linkChecked = ""
    /\ txn = NoTxn
    /\ discovery = NoDiscovery
    /\ late = NoLate
    /\ lookups = [getVault |-> 0, getVaultForWallet |-> 0]
    /\ prevPc = "start"
    /\ prevOut = NoRecords
    /\ liquidatedNow = {}
    /\ liquidatedPrev = {}
    /\ vaultCreator \in Creators
    /\ env = EnvOf(minLevel, vaultCreator)
    /\ config = loadConfig(env).value
    /\ agent \in AgentKeys
    /\ linkHelp = NoInstructions
    /\ vault = "unknown"
    /\ link = "unknown"
    /\ inLoop = FALSE
    /\ everCalled = {}
    /\ startupOut = Banner(LogStartup({}, "generatedKeypair"))
    /\ tokens = 0
    /\ tokenIdx = 0
    /\ positions = <<>>
    /\ posIdx = 0
    /\ retrievals = 0
    /\ invoked = <<>>
    /\ steps = {}
    /\ attemptOut = NoAttempt
    /\ out = NoRecords
    /\ background = {}
    /\ lastCall = NoCall

Init == Startup({"debug", "info", "warn", "error"}, {{}}, {{}})

\* positions (token, index in the token's list) a run can keep the history of
Watched == (1..MaxTokens) \X (1..MaxPos)

\* a run with LOG_LEVEL=error that records the liquidations of one position
InitHistory == Startup({"error"}, {{p} : p \in Watched}, {{}})

\* a run with LOG_LEVEL=error that counts the transactions of one position
InitPending == Startup({"error"}, {{}}, {{p} : p \in Watched})

\* log() of a cycle record
Log(o, kind) == IF Emits(minLevel, LevelOf(kind)) THEN [o EXCEPT ![kind] = @ + 1] ELSE o

\* ------------------------------------------------------------------------
\* main().catch: FATAL, exit 1.  err.message of a null / undefined rejection
\* throws inside the handler: nothing is printed and the rejection is
\* unhandled, which ends the process with status 1 or lets it run out of
\* work and end with status 0, depending on the runtime.
\* ------------------------------------------------------------------------
FatalCodes(err) == IF HasMessage(err) THEN {1} ELSE {0, 1}

FatalOut(s, err) == IF HasMessage(err) THEN s \cup {"FATAL"} ELSE s

\* history of a step of main(): where it was and what the cycle had
\* recorded; the records of a cycle start empty
Step ==
    /\ late' = NoLate
    /\ prevPc' = pc
    /\ prevOut' = IF pc = "getTokens" THEN NoRecords ELSE out

\* the `if (!vault)` guard left out
VaultMissingNever(v) == FALSE

\* if (!vault)
VaultMissing(v) == v = "absent"

\* the `if (!link)` guard left out
LinkMissingNever(l) == FALSE

\* if (!link)
LinkMissing(l) == l = "absent"

\* the two parameters of the instruction block with their values swapped
InstructionsSwapped(vc, wallet) == [vault_creator |-> wallet, wallet_to_link |-> vc]

\* the ACTION REQUIRED block: the buildLinkWalletTransaction call to run
Instructions(vc, wallet) == [vault_creator |-> vc, wallet_to_link |-> wallet]

\* main(), line 73-74: loadConfig() and createLogger(config.logLevel); an
\* error thrown by loadConfig() reaches main().catch: FATAL, exit 1
LoadConfig ==
    /\ pc = "loadConfig"
    /\ LET loaded == loadConfig(env)
       IN IF loaded.ok
          THEN /\ config' = loaded.value
               /\ minLevel' = loaded.value.logLevel
               /\ vaultCreator' = loaded.value.vaultCreator
               /\ pc' = "keypair"
               /\ exitCode' = exitCode
               /\ startupOut' = startupOut
          ELSE /\ config' = config
               /\ minLevel' = minLevel
               /\ vaultCreator' = vaultCreator
               /\ pc' = "exited"
               /\ exitCode' = 1
               /\ startupOut' = startupOut \cup {"FATAL"}
    /\ Step
    /\ UNCHANGED <<env, trackTx, text, decoded, agent, linkHelp, vault, link, inLoop, everCalled, cycleVars,
                   histVars, vaultChecked, lookups, background, lastCall, linkChecked,
                   discovery, unresolved>>

\* main(), line 76-104: the agent keypair, from config.privateKey when there
\* is one and generated otherwise, then the banner
Keypair ==
    /\ pc = "keypair"
    /\ IF PrivateKey(config) # <<>>
       THEN LET loaded == KeyFrom(PrivateKey(config))
            IN IF loaded.ok
               THEN /\ agent' = loaded.key
                    /\ startupOut' = Banner(LogStartup(startupOut, "loadedKeypair"))
                    /\ pc' = "getVault"
                    /\ exitCode' = exitCode
               ELSE /\ agent' = agent
                    /\ startupOut' = startupOut \cup {"FATAL"}
                    /\ pc' = "exited"
                    /\ exitCode' = 1
       ELSE /\ agent' \in AgentKeys
            /\ startupOut' = Banner(LogStartup(startupOut, "generatedKeypair"))
            /\ pc' = "getVault"
            /\ exitCode' = exitCode
    /\ Step
    /\ UNCHANGED <<startVars, minLevel, vaultCreator, linkHelp, vault, link,
                   inLoop, everCalled, cycleVars, histVars, vaultChecked, lookups,
                   background, lastCall, linkChecked, discovery, unresolved>>

\* preflight: verify vault exists
GetVault ==
    /\ pc = "getVault"
    /\ \E lat \in Latencies, v \in {"present", "absent"} : \E res \in OutcomesAt(lat) :
         LET call == Call("getVault", GetVaultLabel, lat, res)
             got == call.got
             err == IF got.kind = "ok" THEN Settled("Error", "") ELSE got
         IN /\ lastCall' = call
            /\ background' = Abandon(background, call)
            /\ everCalled' = everCalled \cup {"getVault"}
            /\ vaultChecked' = vaultCreator
            /\ lookups' = [lookups EXCEPT !.getVault = @ + 1]
            /\ IF got.kind = "ok" /\ ~VaultMissing(v)
               THEN /\ vault' = v
                    /\ startupOut' = LogStartup(startupOut, "vaultFound")
                    /\ pc' = "getVaultForWallet"
                    /\ exitCode' = exitCode
               ELSE /\ vault' = IF got.kind = "ok" THEN v ELSE vault
                    /\ startupOut' = FatalOut(startupOut, err)
                    /\ pc' = "exited"
                    /\ exitCode' \in FatalCodes(err)
    /\ Step
    /\ UNCHANGED <<startVars, minLevel, vaultCreator, agent, linkHelp, link, inLoop,
                   cycleVars, histVars, linkChecked, discovery, unresolved>>

\* preflight: verify agent wallet is linked to vault
GetVaultForWallet ==
    /\ pc = "getVaultForWallet"
    /\ Drained(background)
    /\ \E lat \in Latencies, v \in {"present", "absent"} : \E res \in OutcomesAt(lat) :
         LET call == Call("getVaultForWallet", GetVaultForWalletLabel, lat, res)
             got == call.got
         IN /\ lastCall' = call
            /\ background' = Abandon(background, call)
            /\ everCalled' = everCalled \cup {"getVaultForWallet"}
            /\ lookups' = [lookups EXCEPT !.getVaultForWallet = @ + 1]
            /\ linkChecked' = toBase58(agent)
            /\ IF got.kind # "ok"
               THEN /\ link' = link
                    /\ linkHelp' = linkHelp
                    /\ startupOut' = FatalOut(startupOut, got)
                    /\ pc' = "exited"
                    /\ exitCode' \in FatalCodes(got)
                    /\ inLoop' = FALSE
               ELSE IF LinkMissing(v)
               THEN /\ link' = v
                    /\ startupOut' = startupOut \cup {"instructions"}
                    /\ linkHelp' = Instructions(vaultCreator, toBase58(agent))
                    /\ pc' = "exited"
                    /\ exitCode' = 1
                    /\ inLoop' = FALSE
               ELSE /\ link' = v
                    /\ linkHelp' = linkHelp
                    /\ startupOut' = LogStartup(LogStartup(startupOut, "startingLoop"), "treasury")
                    /\ pc' = "getTokens"
                    /\ exitCode' = exitCode
                    /\ inLoop' = TRUE
    /\ Step
    /\ UNCHANGED <<startVars, minLevel, vaultCreator, agent, vault, vaultChecked,
                   cycleVars, histVars, discovery, unresolved>>

\* ------------------------------------------------------------------------
\* control transfers of scanAndLiquidate and of the scan loop
\* ------------------------------------------------------------------------
Ctl(p, t, i, o) ==
    [pc |-> p, tokenIdx |-> t, posIdx |-> i, out |-> o, exit |-> -1, fatal |-> FALSE]

\* catch (err) of the scan loop: log the error, then sleep.  When err is
\* null / undefined, err.message throws out of the handler, the loop and
\* main(): main().catch prints FATAL and exits with status 1.
CycleCatch(o, t, i, err) ==
    IF HasMessage(err)
    THEN Ctl("sleeping", t, i, Log(o, "cycleError"))
    ELSE [Ctl("exited", t, i, o) EXCEPT !.exit = 1, !.fatal = TRUE]

\* the cycle returning straight into the next cycle, without the sleep
NextUnitNoSleep(o, n, t) ==
    IF t < n
    THEN Ctl("getAllLoanPositions", t + 1, 0, o)
    ELSE Ctl("getTokens", t, 0, Log(o, "cycleEnd"))

\* the token loop stepping over every other token
NextUnitSkipping(o, n, t) ==
    IF t + 1 < n
    THEN Ctl("getAllLoanPositions", t + 2, 0, o)
    ELSE Ctl("sleeping", t, 0, Log(o, "cycleEnd"))

\* end of the for loop over the tokens: next token, or the cycle returns
NextUnit(o, n, t) ==
    IF t < n
    THEN Ctl("getAllLoanPositions", t + 1, 0, o)
    ELSE Ctl("sleeping", t, 0, Log(o, "cycleEnd"))

\* the retrieval error rethrown to the scan loop
RetrievalFailedRethrown(o, n, t, err) == CycleCatch(o, t, 0, err)

\* catch { continue }: the error is dropped unread, on to the next token
RetrievalFailed(o, n, t, err) == NextUnit(o, n, t)

\* the health test left out: every position of the list is attempted
BreakAtNever(health) == FALSE

\* the traversal stopping only at a healthy position
BreakAtHealthy(health) == health = "healthy"

\* if (position.health !== 'liquidatable') break
BreakAt(health) == health # "liquidatable"

\* the loop head with 'continue' in place of 'break': skips the positions
\* that are not liquidatable and goes on with the next liquidatable one
EnterPositionContinue(o, n, t, P, i) ==
    IF \E j \in i..Len(P) : ~BreakAt(P[j])
    THEN Ctl("build", t, CHOOSE j \in i..Len(P) :
                            ~BreakAt(P[j]) /\ \A m \in i..(j - 1) : BreakAt(P[m]),
             Log(o, "LIQUIDATABLE"))
    ELSE NextUnit(o, n, t)

\* head of the for loop over the positions, at position i of list P
EnterPosition(o, n, t, P, i) ==
    IF i <= Len(P) /\ ~BreakAt(P[i])
    THEN Ctl("build", t, i, Log(o, "LIQUIDATABLE"))
    ELSE NextUnit(o, n, t)

\* the handler going back to the position that failed
CaughtRetry(o, err) ==
    IF HasMessage(err)
    THEN EnterPosition(Log(o, "FAILED"), tokens, tokenIdx, positions, posIdx)
    ELSE CycleCatch(o, tokenIdx, posIdx, TypeError)

\* catch (err) of the liquidation attempt: warn, go on with the next
\* position.  When err is null / undefined, err.message throws out of the
\* handler and out of scanAndLiquidate, into the catch of the scan loop.
Caught(o, err) ==
    IF HasMessage(err)
    THEN EnterPosition(Log(o, "FAILED"), tokens, tokenIdx, positions, posIdx + 1)
    ELSE CycleCatch(o, tokenIdx, posIdx, TypeError)

EmitN(kind) == IF Emits(minLevel, LevelOf(kind)) THEN 1 ELSE 0

\* the handler leaving no trace of the failure
WarnOfUnrecorded(att, step, err) == att

\* the attempt's record of its failure at a step: the warn record of the
\* catch handler names the token and the borrower
WarnOf(att, step, err) ==
    IF HasMessage(err)
    THEN [att EXCEPT !.warn = @ + EmitN("FAILED"),
                     !.named = IF EmitN("FAILED") = 1 THEN <<att.unit, att.borrower>> ELSE @,
                     !.failedAt = step, !.threw = err.kind]
    ELSE [att EXCEPT !.failedAt = step, !.threw = err.kind, !.propagated = TRUE]

Apply(ctl) ==
    /\ Step
    /\ pc' = ctl.pc
    /\ tokenIdx' = ctl.tokenIdx
    /\ posIdx' = ctl.posIdx
    /\ out' = ctl.out
    /\ exitCode' = ctl.exit
    /\ startupOut' = IF ctl.fatal THEN startupOut \cup {"FATAL"} ELSE startupOut

\* ------------------------------------------------------------------------
\* scan cycle
\* ------------------------------------------------------------------------
\* the discovery asking for one token
DiscoveryParamsOne == [status |-> "migrated", sort |-> "volume", limit |-> 1]

\* the parameter object of getTokens
DiscoveryParams == [status |-> "migrated", sort |-> "volume", limit |-> 50]

\* the numbers of tokens getTokens can resolve with: it returns no more
\* tokens than the limit it is asked for
Discovered(params) == {n \in 0..MaxTokens : n <= params.limit}

\* scan cycle start, discovery
GetTokens ==
    /\ pc = "getTokens"
    /\ Drained(background)
    /\ discovery' = DiscoveryParams
    /\ \E lat \in Latencies : \E res \in OutcomesAt(lat) :
         LET call == Call("getTokens", GetTokensLabel, lat, res)
             got == call.got
             o1 == Log(NoRecords, "cycleStart")
         IN /\ lastCall' = call
            /\ background' = Abandon(background, call)
            /\ everCalled' = everCalled \cup {"getTokens"}
            /\ IF got.kind = "ok"
               THEN \E n \in Discovered(DiscoveryParams) :
                    /\ tokens' = n
                    /\ Apply(NextUnit(Log(o1, "discovered"), n, 0))
               ELSE /\ tokens' = 0
                    /\ Apply(CycleCatch(o1, 0, 0, got))
    /\ positions' = <<>>
    /\ retrievals' = 0
    /\ invoked' = <<>>
    /\ steps' = {}
    /\ attemptOut' = NoAttempt
    /\ request' = NoRequest
    /\ txn' = NoTxn
    /\ liquidatedPrev' = liquidatedNow
    /\ liquidatedNow' = {}
    /\ UNCHANGED <<startVars, vaultChecked, lookups, minLevel, vaultCreator, agent, linkHelp,
                   vault, link, inLoop, track, linkChecked, unresolved>>

PositionLists == UNION {[1..k -> Health] : k \in 0..MaxPos}

\* position retrieval for the current token, then the head of its position loop
GetAllLoanPositions ==
    /\ pc = "getAllLoanPositions"
    /\ Drained(background)
    /\ \E lat \in Latencies : \E res \in OutcomesAt(lat) :
         LET call == Call("getAllLoanPositions", GetAllLoanPositionsLabel, lat, res)
             got == call.got
         IN /\ lastCall' = call
            /\ background' = Abandon(background, call)
            /\ everCalled' = everCalled \cup {"getAllLoanPositions"}
            /\ IF got.kind # "ok"
               THEN /\ positions' = <<>>
                    /\ Apply(RetrievalFailed(out, tokens, tokenIdx, got))
               ELSE \E P \in PositionLists :
                    /\ positions' = P
                    /\ IF Len(P) = 0
                       THEN Apply(NextUnit(out, tokens, tokenIdx))
                       ELSE Apply(EnterPosition(Log(out, "activeLoans"), tokens,
                                                tokenIdx, P, 1))
    /\ retrievals' = retrievals + 1
    /\ invoked' = <<>>
    /\ steps' = {}
    /\ attemptOut' = NoAttempt
    /\ request' = NoRequest
    /\ txn' = NoTxn
    /\ UNCHANGED <<startVars, vaultChecked, lookups, minLevel, vaultCreator, agent, linkHelp,
                   vault, link, inLoop, tokens, histVars, linkChecked, discovery, unresolved>>

\* the agent's own wallet passed as the vault
BuildParamsToAgent(t, i) ==
    [mint |-> Mint(t), liquidator |-> toBase58(agent), borrower |-> Borrower(t, i),
     vault |-> toBase58(agent)]

\* the parameter object of buildLiquidateTransaction
BuildParams(t, i) ==
    [mint |-> Mint(t), liquidator |-> toBase58(agent), borrower |-> Borrower(t, i),
     vault |-> vaultCreator]

\* liquidation executor, step 1: buildLiquidateTransaction
Build ==
    /\ pc = "build"
    /\ Drained(background)
    /\ \E lat \in Latencies : \E res \in OutcomesAt(lat) :
         LET call == Call("buildLiquidateTransaction", BuildLabel, lat, res)
             got == call.got
             att == [NoAttempt EXCEPT !.unit = tokenIdx, !.borrower = posIdx]
         IN /\ lastCall' = call
            /\ background' = Abandon(background, call)
            /\ everCalled' = everCalled \cup {"buildLiquidateTransaction"}
            /\ invoked' = Append(invoked, posIdx)
            /\ request' = BuildParams(tokenIdx, posIdx)
            /\ txn' = NoTxn
            /\ IF got.kind = "ok"
               THEN /\ steps' = {"build"}
                    /\ attemptOut' = att
                    /\ Apply(Ctl("sign", tokenIdx, posIdx, out))
               ELSE /\ steps' = {}
                    /\ attemptOut' = WarnOf(att, "build", got)
                    /\ Apply(Caught(out, got))
    /\ UNCHANGED <<startVars, vaultChecked, lookups, minLevel, vaultCreator, agent, linkHelp,
                   vault, link, inLoop, tokens, positions, retrievals, histVars,
                   linkChecked, discovery, unresolved>>

\* step 2: transaction.sign(agentKeypair), synchronous
Sign ==
    /\ pc = "sign"
    /\ \E res \in Outcomes :
         LET got == Settled(res, "")
         IN IF got.kind = "ok"
            THEN /\ steps' = steps \cup {"sign"}
                 /\ attemptOut' = attemptOut
                 /\ Apply(Ctl("send", tokenIdx, posIdx, out))
            ELSE /\ steps' = steps
                 /\ attemptOut' = WarnOf(attemptOut, "sign", got)
                 /\ Apply(Caught(out, got))
    /\ txn' = [txn EXCEPT !.signedBy = agent]
    /\ lastCall' = NoCall
    /\ UNCHANGED <<startVars, vaultChecked, lookups, minLevel, vaultCreator, agent, linkHelp,
                   vault, link, inLoop, tokens, positions, retrievals, invoked,
                   background, everCalled, histVars, request, linkChecked, discovery, unresolved>>

\* step 3: connection.sendRawTransaction, awaited without the timeout wrapper
Send ==
    /\ pc = "send"
    /\ Drained(background)
    /\ \E lat \in Latencies : \E res \in (IF lat = Never THEN {"pending"} ELSE Outcomes) :
         LET got == Settled(res, "")
         IN IF lat = Never
            THEN /\ steps' = steps
                 /\ attemptOut' = attemptOut
                 /\ txn' = txn
                 /\ unresolved' = unresolved
                 /\ Apply(Ctl("blocked", tokenIdx, posIdx, out))
            ELSE IF got.kind = "ok"
            THEN /\ steps' = steps \cup {"submit"}
                 /\ Submitted(unresolved, tokenIdx, posIdx) <= MaxUnresolved
                 /\ unresolved' = Submitted(unresolved, tokenIdx, posIdx)
                 /\ attemptOut' = attemptOut
                 /\ txn' = [txn EXCEPT !.signature = Signature(tokenIdx, posIdx)]
                 /\ Apply(Ctl("confirm", tokenIdx, posIdx, out))
            ELSE /\ steps' = steps
                 /\ attemptOut' = WarnOf(attemptOut, "submit", got)
                 /\ txn' = txn
                 /\ unresolved' = unresolved
                 /\ Apply(Caught(out, got))
    /\ lastCall' = NoCall
    /\ everCalled' = everCalled \cup {"sendRawTransaction"}
    /\ UNCHANGED <<startVars, vaultChecked, lookups, minLevel, vaultCreator, agent, linkHelp,
                   vault, link, inLoop, tokens, positions, retrievals, invoked,
                   background, histVars, request, linkChecked, discovery>>

\* the confirmation asked for the token's first position, whatever was sent
ConfirmArgsFirst(tx, signature, wallet) ==
    [tx EXCEPT !.confirmSignature = Signature(tokenIdx, 1), !.confirmWallet = wallet]

\* the arguments of confirmTransaction(connection, signature, wallet)
ConfirmArgs(tx, signature, wallet) ==
    [tx EXCEPT !.confirmSignature = signature, !.confirmWallet = wallet]

\* step 4: confirmTransaction, then the LIQUIDATED record
Confirm ==
    /\ pc = "confirm"
    /\ Drained(background)
    /\ \E lat \in Latencies : \E res \in OutcomesAt(lat) :
         LET call == Call("confirmTransaction", ConfirmLabel, lat, res)
             got == call.got
         IN /\ lastCall' = call
            /\ background' = Abandon(background, call)
            /\ everCalled' = everCalled \cup {"confirmTransaction"}
            /\ txn' = ConfirmArgs(txn, txn.signature, toBase58(agent))
            /\ unresolved' = IF got.kind = "Timeout"
                             THEN unresolved
                             ELSE Resolved(unresolved, tokenIdx, posIdx)
            /\ IF got.kind = "ok"
               THEN /\ steps' = steps \cup {"confirm"}
                    /\ attemptOut' = [attemptOut EXCEPT !.liquidated = @ + EmitN("LIQUIDATED")]
                    /\ liquidatedNow' = Record(liquidatedNow, tokenIdx, posIdx)
                    /\ Apply(EnterPosition(Log(out, "LIQUIDATED"), tokens, tokenIdx,
                                           positions, posIdx + 1))
               ELSE /\ steps' = steps
                    /\ liquidatedNow' = liquidatedNow
                    /\ attemptOut' = WarnOf(attemptOut, "confirm", got)
                    /\ Apply(Caught(out, got))
    /\ UNCHANGED <<startVars, vaultChecked, lookups, minLevel, vaultCreator, agent, linkHelp,
                   vault, link, inLoop, tokens, positions, retrievals, invoked, track,
                   liquidatedPrev, request, linkChecked, discovery>>

\* the loop going back to the preflight lookups after each sleep
SleepThenPreflight ==
    /\ pc = "sleeping"
    /\ Drained(background)
    /\ pc' = "getVault"
    /\ Step
    /\ lastCall' = NoCall
    /\ UNCHANGED <<startVars, exitCode, vaultChecked, lookups, minLevel, vaultCreator,
                   agent, linkHelp,
                   vault, link, inLoop, everCalled, startupOut, cycleVars, background,
                   histVars, linkChecked, discovery, unresolved>>

\* await new Promise((resolve) => setTimeout(resolve, config.scanIntervalMs))
Sleep ==
    /\ pc = "sleeping"
    /\ Drained(background)
    /\ pc' = "getTokens"
    /\ Step
    /\ lastCall' = NoCall
    /\ UNCHANGED <<startVars, exitCode, vaultChecked, lookups, minLevel, vaultCreator, agent,
                   linkHelp, vault, link, inLoop, everCalled, startupOut, cycleVars,
                   background, histVars, linkChecked, discovery, unresolved>>

\* an abandoned operation settles in the background, resolving or
\* rejecting; nobody awaits it
LateCompletion ==
    /\ pc # "exited"
    /\ \E l \in background, res \in Outcomes :
         /\ background' = background \ {l}
         /\ late' = [fn |-> l, res |-> res]
         /\ unresolved' = IF l = "confirmTransaction"
                          THEN Resolved(unresolved, attemptOut.unit, attemptOut.borrower)
                          ELSE unresolved
    /\ lastCall' = NoCall
    /\ UNCHANGED <<startVars, pc, exitCode, vaultChecked, lookups, minLevel, vaultCreator,
                   agent,
                   linkHelp, vault, link, inLoop, everCalled, startupOut, cycleVars,
                   histVars, prevPc, prevOut, linkChecked, discovery>>

Next ==
    \/ GetVault
    \/ GetVaultForWallet
    \/ GetTokens
    \/ GetAllLoanPositions
    \/ Build
    \/ Sign
    \/ Send
    \/ Confirm
    \/ Sleep
    \/ LateCompletion

Spec == Init /\ [][Next]_vars

SpecHistory == InitHistory /\ [][Next]_vars

SpecPending == InitPending /\ [][Next]_vars

\* ------------------------------------------------------------------------
\* startup: main() from its first line to the entry of the scan loop, over
\* the environments the process can be started in
\* ------------------------------------------------------------------------
\* the environments with a variable left unset or set to one of the values
Opt(name, values) == {<<>>} \cup {name :> v : v \in values}

Intervals ==
    {<<>>, <<"a", "b", "c">>, <<"4", "9", "9", "9">>, <<"5", "0", "0", "0">>,
     <<"6", "0", "0", "0", "a", "b", "c">>, <<"-", "7", "0", "0", "0">>,
     <<" ", "9", "0", "0", "0">>}

EnvSpace ==
    {a @@ b @@ c @@ d @@ f @@ g :
        a \in Opt("RPC_URL", {"", "rpcA"}),
        b \in Opt("SOLANA_RPC_URL", {"rpcB"}),
        c \in Opt("VAULT_CREATOR", {""} \cup Creators),
        d \in Opt("SOLANA_PRIVATE_KEY", Secrets),
        f \in Opt("SCAN_INTERVAL_MS", Intervals),
        g \in Opt("LOG_LEVEL", LOG_LEVELS \cup {"", "verbose", "INFO"})}

\* main() about to run, nothing loaded yet
NotStarted ==
    /\ trackTx = {}
    /\ unresolved = 0
    /\ config = NoConfig
    /\ exitCode = -1
    /\ minLevel = ""
    /\ vaultCreator = ""
    /\ agent = ""
    /\ track = {}
    /\ vaultChecked = ""
    /\ request = NoRequest
    /\ linkChecked = ""
    /\ txn = NoTxn
    /\ discovery = NoDiscovery
    /\ late = NoLate
    /\ lookups = [getVault |-> 0, getVaultForWallet |-> 0]
    /\ prevPc = "start"
    /\ prevOut = NoRecords
    /\ liquidatedNow = {}
    /\ liquidatedPrev = {}
    /\ linkHelp = NoInstructions
    /\ vault = "unknown"
    /\ link = "unknown"
    /\ inLoop = FALSE
    /\ everCalled = {}
    /\ startupOut = {}
    /\ tokens = 0
    /\ tokenIdx = 0
    /\ positions = <<>>
    /\ posIdx = 0
    /\ retrievals = 0
    /\ invoked = <<>>
    /\ steps = {}
    /\ attemptOut = NoAttempt
    /\ out = NoRecords
    /\ background = {}
    /\ lastCall = NoCall

InitConfig ==
    /\ pc = "loadConfig"
    /\ env \in EnvSpace
    /\ text = <<>>
    /\ decoded = NoDecoded
    /\ NotStarted

NextConfig ==
    \/ LoadConfig
    \/ Keypair
    \/ GetVault
    \/ GetVaultForWallet

SpecConfig == InitConfig /\ [][NextConfig]_vars

\* ------------------------------------------------------------------------
\* decodeBase58 as a function: one call on each text of the bound
\* ------------------------------------------------------------------------
\* characters of the texts: the first, some middle and the last digits of
\* the alphabet, and two characters the alphabet leaves out
TextChars == {"1", "2", "5", "T", "z", "0", "O"}

RECURSIVE TextsOf(_)
TextsOf(n) ==
    IF n = 0 THEN {<<>>}
    ELSE {<<>>} \cup {<<c>> \o t : c \in TextChars, t \in TextsOf(n - 1)}

Texts == TextsOf(MaxText)

InitDecode ==
    /\ pc = "decodeBase58"
    /\ env = <<>>
    /\ text \in Texts
    /\ decoded = NoDecoded
    /\ NotStarted

\* the call returns the bytes or throws
DecodeBase58 ==
    /\ pc = "decodeBase58"
    /\ decoded' = decodeBase58(text)
    /\ pc' = "returned"
    /\ Step
    /\ UNCHANGED <<env, config, trackTx, text, exitCode, minLevel, vaultCreator, agent,
                   linkHelp, vault, link, inLoop, everCalled, startupOut, cycleVars,
                   histVars, vaultChecked, lookups, background, lastCall, linkChecked,
                   discovery, unresolved>>

NextDecode == DecodeBase58

SpecDecode == InitDecode /\ [][NextDecode]_vars

\* ------------------------------------------------------------------------
\* properties
\* ------------------------------------------------------------------------
AllSteps == {"build", "sign", "submit", "confirm"}

\* the current token's traversal is over: the next retrieval is due, the
\* cycle has returned, or an error that escaped the loop ended the process
UnitOver == pc \in {"getAllLoanPositions", "sleeping"} \/ (pc = "exited" /\ inLoop)

\* the cycle is over: it returned or was abandoned
CycleOver == pc = "sleeping" \/ (pc = "exited" /\ inLoop)

\* length of the leading run of liquidatable positions of P
LeadingRun(P) ==
    CHOOSE k \in 0..Len(P) :
        /\ \A i \in 1..k : P[i] = "liquidatable"
        /\ (k = Len(P) \/ P[k + 1] # "liquidatable")

\* C1: in a cycle in which discovery succeeded, getAllLoanPositions is called
\* for every discovered token: once the cycle is over, the number of
\* retrievals equals the number of tokens discovery returned.
C1_AllUnitsAttempted == CycleOver => retrievals = tokens

\* C2: the executor is invoked only for liquidatable positions, and never
\* for a position that comes after the first position that is not
\* liquidatable.
C2_BreakOnFirstNonLiquidatable ==
    \A k \in 1..Len(invoked) :
        \A j \in 1..invoked[k] : positions[j] = "liquidatable"

\* C2 witness: the traversal of a list with a liquidatable position behind a
\* non-liquidatable one is over, and the cycle has returned.
C2_Witness ==
    /\ pc = "sleeping"
    /\ out["cycleError"] = 0
    /\ \E i, j \in 1..Len(positions) :
          /\ i < j
          /\ positions[i] # "liquidatable"
          /\ positions[j] = "liquidatable"

\* C3: when the traversal of a token's list is over, the executor has been
\* invoked exactly once for each position of the leading liquidatable run,
\* in list order, whatever the outcome of the attempts.
C3_ExactlyLeadingRun ==
    UnitOver => invoked = [i \in 1..LeadingRun(positions) |-> i]

\* C4: an attempt in which a step threw, whatever it threw, emits exactly
\* one warn record (when warn records are printed) and returns to the
\* position loop; the error does not leave the executor.
C4_FailureIsolated ==
    attemptOut.failedAt # "none" =>
        /\ ~attemptOut.propagated
        /\ (Emits(minLevel, "warn") => attemptOut.warn = 1)

\* C5: (with info and warn records printed) an attempt emits a LIQUIDATED
\* record iff build, sign, submit and confirm all succeeded; an attempt
\* whose build step threw emits exactly one warn record naming the token
\* and the borrower, no LIQUIDATED record, does no further step and the
\* position loop goes on.
C5_LiquidatedIffAllSteps ==
    Emits(minLevel, "info") =>
        /\ (attemptOut.liquidated = 1) <=> (steps = AllSteps)
        /\ attemptOut.failedAt = "build" =>
              /\ attemptOut.warn = 1
              /\ attemptOut.named = <<attemptOut.unit, attemptOut.borrower>>
              /\ attemptOut.liquidated = 0
              /\ steps = {}
              /\ ~attemptOut.propagated

\* C6: no external call of a cycle can block the run loop: the loop is never
\* left waiting on a call that does not settle.
C6_NoCallBlocksLoop == pc # "blocked"

\* C7: a wrapped call whose operation never settles fails with a Timeout
\* carrying the label of the function called, after the caller waited the
\* deadline; one that settles before the deadline yields the operation's own
\* outcome; a timed-out operation that will still settle is left running.
C7_TimeoutLaw ==
    lastCall.fn # "none" =>
        /\ lastCall.lat = Never =>
              /\ lastCall.got = Settled("Timeout", lastCall.fn)
              /\ lastCall.waited = SDK_TIMEOUT
        /\ (lastCall.lat # Never /\ lastCall.lat < SDK_TIMEOUT) =>
              /\ lastCall.got = Settled(lastCall.res, "")
              /\ lastCall.waited = lastCall.lat
        /\ (lastCall.lat # Never /\ lastCall.lat > SDK_TIMEOUT) =>
              /\ lastCall.got = Settled("Timeout", lastCall.fn)
              /\ lastCall.fn \in background

\* C7 witness: a build whose operation never settles has timed out.
C7_Witness ==
    /\ lastCall.fn = "buildLiquidateTransaction"
    /\ lastCall.lat = Never
    /\ lastCall.got.kind = "Timeout"

\* C8: once the scan loop is entered, the process never terminates.
C8_LoopNeverTerminates == inLoop => pc # "exited"

CycleCalls ==
    {"getTokens", "getAllLoanPositions", "buildLiquidateTransaction",
     "sendRawTransaction", "confirmTransaction"}

\* C9: the scan loop is entered, and a discovery, retrieval or liquidation
\* call is made, only after the vault lookup and the linkage lookup have
\* both returned a present result.
C9_LoopOnlyAfterPreflight ==
    (inLoop \/ everCalled \cap CycleCalls # {}) =>
        (vault = "present" /\ link = "present")

\* C9 witness: the loop is running and has made a liquidation call.
C9_Witness == inLoop /\ "buildLiquidateTransaction" \in everCalled

\* C10: when the vault lookup returns absent, the process exits with a
\* non-zero status with no linkage lookup, no discovery call and no
\* 'starting scan loop' record.
C10_VaultAbsentExits ==
    vault = "absent" =>
        /\ pc = "exited"
        /\ exitCode # 0 /\ exitCode # -1
        /\ ~inLoop
        /\ everCalled = {"getVault"}
        /\ "startingLoop" \notin startupOut

\* C10 witness: the vault lookup returned absent and the process has exited.
C10_Witness == vault = "absent" /\ pc = "exited" /\ "FATAL" \in startupOut

\* C11: when the linkage lookup returns absent, the process prints the
\* linkage instructions with the configured vault creator and the agent's
\* public key, and exits with a non-zero status: the loop is not entered,
\* no cycle call is made and there is no 'starting scan loop' record.
C11_LinkAbsentExits ==
    link = "absent" =>
        /\ linkHelp = [vault_creator |-> vaultCreator, wallet_to_link |-> toBase58(agent)]
        /\ pc = "exited"
        /\ exitCode # 0 /\ exitCode # -1
        /\ ~inLoop
        /\ everCalled \cap CycleCalls = {}
        /\ "startingLoop" \notin startupOut

\* C11 witness: the linkage lookup returned absent, the instructions are
\* printed and the process has exited.
C11_Witness == link = "absent" /\ "instructions" \in startupOut /\ pc = "exited"

\* the data just retrieved for the current token reports position i as
\* liquidatable
Reported(i) == i <= Len(positions) /\ positions[i] = "liquidatable"

\* the positions of the current token the executor was invoked for
Attempted == {invoked[k] : k \in 1..Len(invoked)}

\* C12: once the current token's positions are retrieved, a position that
\* was liquidated in the previous cycle and that the fresh data does not
\* report as liquidatable is not attempted; whatever was liquidated before,
\* the positions attempted are positions of the leading liquidatable run of
\* the list just retrieved.
C12_NoCarryOver ==
    retrievals = tokenIdx =>
        /\ \A p \in liquidatedPrev :
              (p[1] = tokenIdx /\ ~Reported(p[2])) => p[2] \notin Attempted
        /\ Attempted \subseteq 1..LeadingRun(positions)

\* C12 witness: the traversal of a token's list is over, another position
\* of the list was attempted, and a position of the token liquidated in the
\* previous cycle is on the list with a health that is not liquidatable.
C12_Witness ==
    /\ UnitOver
    /\ retrievals = tokenIdx
    /\ Attempted # {}
    /\ \E p \in liquidatedPrev :
          p[1] = tokenIdx /\ p[2] <= Len(positions) /\ ~Reported(p[2])

\* the last step was a position retrieval which failed, timed out or
\* returned an empty list
SkippingRetrieval ==
    /\ lastCall.fn = "getAllLoanPositions"
    /\ (lastCall.got.kind # "ok" \/ positions = <<>>)

\* C13: a position retrieval that fails (whatever is thrown, a timeout
\* included) or returns an empty list skips the token: no executor
\* invocation, no warn or error record, no record at all but the cycle-end
\* one, the process keeps running, the next step is the next token's
\* retrieval or, after the last token, the normal end of the cycle.
C13_SkippedUnit ==
    SkippingRetrieval =>
        /\ invoked = <<>>
        /\ request = NoRequest
        /\ \A k \in CycleKinds \ {"cycleEnd"} : out[k] = prevOut[k]
        /\ exitCode = -1
        /\ IF retrievals < tokens
           THEN pc = "getAllLoanPositions" /\ tokenIdx = retrievals + 1
                /\ out["cycleEnd"] = prevOut["cycleEnd"]
           ELSE pc = "sleeping"
                /\ out["cycleEnd"] = prevOut["cycleEnd"] + EmitN("cycleEnd")

\* C13 witness: discovery returned one token, its retrieval returned an
\* empty list, and the cycle has ended with no attempt and no warning.
C13_Witness ==
    /\ tokens = 1
    /\ lastCall.fn = "getAllLoanPositions"
    /\ lastCall.got.kind = "ok"
    /\ positions = <<>>
    /\ pc = "sleeping"
    /\ out["cycleEnd"] = 1
    /\ out["LIQUIDATABLE"] = 0 /\ out["FAILED"] = 0 /\ out["cycleError"] = 0

\* C14: when discovery fails (getTokens throws or times out) the cycle is
\* abandoned with no retrieval and no executor invocation, the scan loop
\* emits exactly one 'scan cycle error' record, and the loop goes on to
\* its sleep.
C14_DiscoveryFailureAbandonsCycle ==
    (lastCall.fn = "getTokens" /\ lastCall.got.kind # "ok") =>
        /\ retrievals = 0
        /\ invoked = <<>>
        /\ out["cycleError"] = 1
        /\ pc = "sleeping"
        /\ exitCode = -1

\* the position the current attempt is for: the last one invoked
Current == invoked[Len(invoked)]

\* C15: every build request carries the mint of the current token, the
\* agent's public key as liquidator, the borrower of the current position
\* and the configured vault creator as vault; the vault parameter is never
\* missing and is the creator whose vault the preflight found present.
C15_BuildRequestParameters ==
    request # NoRequest =>
        /\ request.mint = <<"mint", retrievals>>
        /\ request.liquidator = toBase58(agent)
        /\ request.borrower = <<"borrower", retrievals, Current>>
        /\ request.vault = vaultCreator
        /\ request.vault # ""
        /\ request.vault = vaultChecked
        /\ vault = "present"
        /\ positions[Current] = "liquidatable"

\* C15 witness: a build request for the second position of a token's list
\* has been issued with the configured vault creator as vault.
C15_Witness ==
    /\ lastCall.fn = "buildLiquidateTransaction"
    /\ request.vault = vaultCreator
    /\ request.borrower = <<"borrower", retrievals, 2>>

\* C16: within a cycle the executor is invoked at most once per entry of a
\* token's list: a build is only ever due for an entry of the list just
\* retrieved that has not been attempted, and after a failed attempt no
\* further step of that attempt is made and the next build, if any, is for
\* a later entry of the same list.
C16_NoRetry ==
    /\ \A j, k \in 1..Len(invoked) : j < k => invoked[j] < invoked[k]
    /\ pc = "build" => (posIdx \notin Attempted /\ tokenIdx = retrievals)
    /\ attemptOut.failedAt # "none" =>
          /\ pc \notin {"sign", "send", "confirm"}
          /\ pc = "build" =>
                (tokenIdx = attemptOut.unit /\ posIdx > attemptOut.borrower)

\* C16 witness: an attempt failed at its confirmation and the build for the
\* next entry of the list is due.
C16_Witness ==
    /\ attemptOut.failedAt = "confirm"
    /\ pc = "build"
    /\ invoked = <<1>>

\* C17: tokens are processed in the order of the discovered list and the
\* positions of a token in the order of its list: the t-th retrieval of a
\* cycle is for token t, the k-th attempt of a token is for entry k, and
\* when the next token's retrieval is due every attempt of the token
\* before it, one per entry of its leading liquidatable run, has returned.
C17_InOrder ==
    /\ retrievals = (IF pc = "getAllLoanPositions" THEN tokenIdx - 1 ELSE tokenIdx)
    /\ tokenIdx <= tokens
    /\ invoked = [k \in 1..Len(invoked) |-> k]
    /\ pc \in {"build", "sign", "send", "confirm"} =>
          posIdx = Len(invoked) + (IF pc = "build" THEN 1 ELSE 0)
    /\ pc = "getAllLoanPositions" =>
          /\ Len(invoked) = LeadingRun(positions)
          /\ invoked # <<>> => (steps = AllSteps \/ attemptOut.failedAt # "none")

\* C17 witness: the two attempts of the first token have returned and the
\* retrieval of the second token is due.
C17_Witness ==
    /\ pc = "getAllLoanPositions"
    /\ tokenIdx = 2
    /\ invoked = <<1, 2>>

\* where main() is inside an attempt
AttemptPcs == {"build", "sign", "send", "confirm"}

\* where main() is inside a cycle
CyclePcs == {"getTokens", "getAllLoanPositions"} \cup AttemptPcs

\* the attempt made last has returned: it succeeded or its failure was
\* handled
Returned == steps = AllSteps \/ attemptOut.failedAt # "none"

\* C18: main() is one sequential thread.  An attempt begins only when the
\* attempt before it has returned, and the steps of an attempt are those
\* of the one attempt under way; a cycle begins only from the sleep that
\* follows the previous cycle, or from the preflight; the sleep begins
\* only when the cycle has returned or was abandoned.
C18_SingleThread ==
    /\ pc = "build" =>
          \/ prevPc = "getAllLoanPositions" /\ posIdx = 1 /\ invoked = <<>>
          \/ prevPc \in AttemptPcs /\ posIdx = attemptOut.borrower + 1 /\ Returned
    /\ pc \in {"sign", "send", "confirm"} =>
          /\ prevPc \in AttemptPcs
          /\ ~Returned
          /\ attemptOut.unit = tokenIdx /\ attemptOut.borrower = posIdx
    /\ pc = "getAllLoanPositions" =>
          /\ prevPc \in CyclePcs
          /\ prevPc \in AttemptPcs => Returned
    /\ pc = "getTokens" => prevPc \in {"sleeping", "getVaultForWallet"}
    /\ pc = "sleeping" =>
          /\ prevPc \in CyclePcs
          /\ prevPc \in AttemptPcs => Returned

\* C18 witness: a cycle with two retrievals and an attempt has returned,
\* its sleep has elapsed and the next cycle is about to begin.
C18_Witness ==
    /\ pc = "getTokens"
    /\ retrievals = 2
    /\ invoked # <<>>
    /\ out["cycleError"] = 0

\* the last step was a call of function fn that timed out
TimedOut(fn) == lastCall.fn = fn /\ lastCall.got.kind = "Timeout"

\* C19: a timeout is handled as any error at the level of the call: of
\* discovery, the cycle is abandoned with one error record and the loop
\* sleeps; of a retrieval, the token is skipped with no record; of a build
\* or a confirmation, one warn record and the position loop goes on with
\* the next entry; in the cycle it never ends the process; of a preflight
\* lookup, FATAL is printed and the process exits with status 1.
C19_TimeoutAsAnyError ==
    /\ TimedOut("getTokens") =>
          /\ pc = "sleeping" /\ exitCode = -1
          /\ retrievals = 0 /\ invoked = <<>>
          /\ out["cycleError"] = 1 /\ out["cycleEnd"] = 0
    /\ TimedOut("getAllLoanPositions") =>
          /\ pc \in {"getAllLoanPositions", "sleeping"} /\ exitCode = -1
          /\ invoked = <<>>
          /\ \A k \in CycleKinds \ {"cycleEnd"} : out[k] = prevOut[k]
    /\ (TimedOut("buildLiquidateTransaction") \/ TimedOut("confirmTransaction")) =>
          /\ out["FAILED"] = prevOut["FAILED"] + EmitN("FAILED")
          /\ out["cycleError"] = prevOut["cycleError"]
          /\ out["LIQUIDATED"] = prevOut["LIQUIDATED"]
          /\ exitCode = -1
          /\ IF Current < Len(positions) /\ positions[Current + 1] = "liquidatable"
             THEN pc = "build" /\ posIdx = Current + 1
             ELSE pc \in {"getAllLoanPositions", "sleeping"}
    /\ (TimedOut("getVault") \/ TimedOut("getVaultForWallet")) =>
          /\ pc = "exited" /\ exitCode = 1
          /\ "FATAL" \in startupOut
          /\ ~inLoop

\* C19 witness: a confirmation has timed out, one warn record is emitted
\* and the build for the next position is due.
C19_Witness ==
    /\ lastCall.fn = "confirmTransaction"
    /\ lastCall.got.kind = "Timeout"
    /\ attemptOut.warn = 1
    /\ pc = "build"
    /\ posIdx = 2

\* C20: each preflight lookup is called at most once, and exactly once by
\* the time the loop is entered: no cycle calls getVault or
\* getVaultForWallet again.
C20_PreflightOnce ==
    /\ lookups.getVault <= 1
    /\ lookups.getVaultForWallet <= 1
    /\ inLoop => (lookups.getVault = 1 /\ lookups.getVaultForWallet = 1)

\* C20 witness: the loop has run a cycle with a liquidation attempt and
\* slept, the next cycle is due, and each lookup has been called once.
C20_Witness ==
    /\ inLoop
    /\ pc = "getTokens"
    /\ "confirmTransaction" \in everCalled
    /\ lookups = [getVault |-> 1, getVaultForWallet |-> 1]
\* ------------------------------------------------------------------------
\* agent identity
\* ------------------------------------------------------------------------
\* main() has determined the agent keypair
KeypairChosen == pc \notin {"loadConfig", "keypair"} /\ config # NoConfig

\* the agent identity every use so far was made with, "" when unused
IdentityUses ==
    {linkChecked, linkHelp.wallet_to_link, request.liquidator, txn.confirmWallet} \ {""}

\* C21: the process has one agent identity: the keypair chosen at startup is
\* the one reconstructed from SOLANA_PRIVATE_KEY when a secret is configured
\* and a freshly generated one otherwise, and the linkage lookup, the build
\* requests, the signatures and the confirmations all use that keypair
C21_OneAgentIdentity ==
    KeypairChosen =>
        /\ IF Unset(env, "SOLANA_PRIVATE_KEY")
           THEN agent \in AgentKeys
           ELSE agent = KeyFrom(env["SOLANA_PRIVATE_KEY"]).key
        /\ IdentityUses \subseteq {toBase58(agent)}
        /\ txn.signedBy \in {"", agent}

\* ------------------------------------------------------------------------
\* break traversal and full scan
\* ------------------------------------------------------------------------
\* the order getAllLoanPositions returns the positions in
healthOrder == <<"liquidatable", "at_risk", "healthy">>

\* healthOrder.indexOf(health), from 1
TierIdx(health) == CHOOSE k \in 1..Len(healthOrder) : healthOrder[k] = health

\* the list is made of the three tiers and no position comes before one of
\* an earlier tier
SortedByHealth(P) ==
    /\ \A k \in 1..Len(P) : \E t \in 1..Len(healthOrder) : healthOrder[t] = P[k]
    /\ \A k \in 2..Len(P) : TierIdx(P[k]) >= TierIdx(P[k - 1])

\* the full scan: if (position.health !== 'liquidatable') continue
FullScan(P) == {k \in 1..Len(P) : P[k] = "liquidatable"}

\* the position loop of the current token is over and returned normally
TraversalDone ==
    /\ pc \in {"getAllLoanPositions", "sleeping"}
    /\ ~attemptOut.propagated

\* C22: on a position list sorted liquidatable, at_risk, healthy the
\* traversal that breaks at the first position that is not liquidatable
\* invokes the executor on exactly the positions a full scan filtering on
\* health = liquidatable invokes it on: at every loop head it reaches it
\* picks the position the full scan picks next, or ends when the full scan
\* has none left, and a traversal that is over has attempted all of them
C22_BreakEqualsFullScan ==
    SortedByHealth(positions) =>
        /\ \A i \in 1..(LeadingRun(positions) + 1) :
             LET head == EnterPosition(out, tokens, tokenIdx, positions, i)
                 rest == {k \in FullScan(positions) : k >= i}
             IN IF rest = {}
                THEN head.pc # "build"
                ELSE /\ head.pc = "build"
                     /\ head.posIdx \in rest
                     /\ \A k \in rest : head.posIdx <= k
        /\ TraversalDone => Attempted = FullScan(positions)

C22_Witness ==
    /\ pc = "getAllLoanPositions"
    /\ positions = <<"liquidatable", "at_risk">>
    /\ invoked = <<1>>
    /\ ~attemptOut.propagated

\* ------------------------------------------------------------------------
\* startup configuration
\* ------------------------------------------------------------------------
\* the string is a number: white space, a sign, then digits to its end
IsNumber(s) ==
    LET white == {k \in 1..Len(s) : \A m \in 1..k : s[m] = " "}
        i == Cardinality(white) + 1
        j == IF i <= Len(s) /\ s[i] \in {"+", "-"} THEN i + 1 ELSE i
    IN j <= Len(s) /\ \A m \in j..Len(s) : IsDigit(s[m])

\* loadConfig() has returned or thrown
ConfigDone == pc # "loadConfig"

\* C23: a missing endpoint or vault creator is a fatal startup error raised
\* before any external call; the interval is 30000 when SCAN_INTERVAL_MS is
\* not provided, a provided value that is not a number or is below 5000 is
\* rejected, so the interval is at least 5000; the log level is info when
\* LOG_LEVEL is not provided and otherwise one of the four levels
C23_StartupConfiguration ==
    ConfigDone =>
        /\ (\/ Unset(env, "RPC_URL") /\ Unset(env, "SOLANA_RPC_URL")
            \/ Unset(env, "VAULT_CREATOR"))
           => /\ pc = "exited"
              /\ exitCode = 1
              /\ "FATAL" \in startupOut
              /\ everCalled = {}
        /\ config # NoConfig =>
              /\ config.scanIntervalMs >= MinInterval
              /\ IF Unset(env, "SCAN_INTERVAL_MS")
                 THEN config.scanIntervalMs = 30000
                 ELSE /\ IsNumber(env["SCAN_INTERVAL_MS"])
                      /\ Num(config.scanIntervalMs) = parseInt(env["SCAN_INTERVAL_MS"])
              /\ config.logLevel \in {"debug", "info", "warn", "error"}
              /\ config.logLevel = IF Unset(env, "LOG_LEVEL") THEN "info" ELSE env["LOG_LEVEL"]

\* the configuration is valid apart from the endpoint
RestValid ==
    /\ ~Falsy(env, "VAULT_CREATOR")
    /\ ~TooShort(parseInt(OrElse(env, "SCAN_INTERVAL_MS", DefaultInterval)))
    /\ OrElse(env, "LOG_LEVEL", "info") \in LOG_LEVELS

\* C24: the endpoint is the value of SOLANA_RPC_URL and, when that is not
\* set, the value of RPC_URL; startup fails for the endpoint only when
\* neither is set
C24_EndpointFallback ==
    ConfigDone =>
        IF Falsy(env, "SOLANA_RPC_URL") /\ Falsy(env, "RPC_URL")
        THEN pc = "exited" /\ exitCode = 1 /\ config = NoConfig
        ELSE RestValid =>
               /\ config # NoConfig
               /\ config.rpcUrl = IF Falsy(env, "SOLANA_RPC_URL")
                                  THEN env["RPC_URL"]
                                  ELSE env["SOLANA_RPC_URL"]

\* ------------------------------------------------------------------------
\* logger
\* ------------------------------------------------------------------------
\* debug < info < warn < error
LevelRank == [debug |-> 0, info |-> 1, warn |-> 2, error |-> 3]

\* the level is at or above the configured minimum level
AtOrAbove(level) == LevelRank[level] >= LevelRank[minLevel]

\* the number of records n log() calls at the level leave
Printed(n, level) == IF AtOrAbove(level) THEN n ELSE 0

\* a cycle has started since the loop was entered
InCycle == inLoop /\ prevPc \in CyclePcs \cup {"sleeping"}

\* C25: a record is emitted if and only if its level is at or above the
\* minimum level, in the order debug < info < warn < error: no record of a
\* lower level is ever in the output, every record the code logs at a level
\* at or above the minimum is, and the minimum level is the configured one in
\* every state
C25_LoggerFilter ==
    /\ minLevel = config.logLevel
    /\ minLevel = OrElse(env, "LOG_LEVEL", "info")
    /\ \A k \in CycleKinds : out[k] > 0 => AtOrAbove(LevelOf(k))
    /\ \A k \in startupOut \ {"banner", "FATAL", "instructions"} : AtOrAbove(LevelOf(k))
    /\ ("generatedKeypair" \in startupOut) = AtOrAbove("info")
    /\ vault = "present" => ("vaultFound" \in startupOut) = AtOrAbove("info")
    /\ inLoop => ("startingLoop" \in startupOut) = AtOrAbove("info")
    /\ InCycle => out["cycleStart"] = Printed(1, "debug")
    /\ InCycle => out["LIQUIDATABLE"] = Printed(out["LIQUIDATABLE"], "info")
    /\ pc = "sleeping" => out["cycleEnd"] = Printed(1 - out["cycleError"], "debug")
    /\ pc \in AttemptPcs => out["LIQUIDATABLE"] >= Printed(1, "info")
    /\ attemptOut.failedAt # "none" /\ ~attemptOut.propagated
         => attemptOut.warn = Printed(1, "warn")
    /\ steps = AllSteps => attemptOut.liquidated = Printed(1, "info")
    /\ pc = "sleeping" /\ attemptOut.propagated => out["cycleError"] = Printed(1, "error")

C25_Witness ==
    /\ minLevel = "warn"
    /\ attemptOut.warn = 1
    /\ out["LIQUIDATABLE"] = 0
    /\ out["cycleStart"] = 0
    /\ pc = "sleeping"

\* ------------------------------------------------------------------------
\* steps of the executor
\* ------------------------------------------------------------------------
StepOrder == <<"build", "sign", "submit", "confirm">>

\* the steps before step k of the executor
Before(k) == {StepOrder[m] : m \in 1..(k - 1)}

\* confirmTransaction has been called in the current attempt
ConfirmRequested == txn.confirmWallet # ""

\* C26: in one executor invocation the steps run in the order build, sign,
\* submit, confirm, each only after the one before it succeeded; the
\* confirmation is requested with the signature the submit of that attempt
\* returned and with the agent's public key, and never when nothing was
\* submitted
C26_StepOrder ==
    /\ \A k \in 1..Len(StepOrder) : StepOrder[k] \in steps => Before(k) \subseteq steps
    /\ pc = "sign" => steps = Before(2)
    /\ pc = "send" => steps = Before(3)
    /\ pc = "confirm" => steps = Before(4)
    /\ txn.signedBy # "" => "build" \in steps /\ txn.signedBy = agent
    /\ txn.signature # NoSignature
         => /\ "sign" \in steps
            /\ "submit" \in steps
            /\ txn.signature = Signature(attemptOut.unit, attemptOut.borrower)
    /\ "submit" \in steps => txn.signature # NoSignature
    /\ ConfirmRequested
         => /\ "submit" \in steps
            /\ txn.confirmSignature = txn.signature
            /\ txn.confirmWallet = toBase58(agent)
    /\ "confirm" \in steps => ConfirmRequested
    /\ attemptOut.failedAt = "build" => txn = NoTxn
    /\ attemptOut.failedAt = "sign" => txn.signature = NoSignature /\ ~ConfirmRequested
    /\ attemptOut.failedAt = "submit" => txn.signature = NoSignature /\ ~ConfirmRequested

C26_Witness ==
    /\ steps = AllSteps
    /\ attemptOut.unit = 2
    /\ attemptOut.borrower = 2
    /\ txn.confirmSignature = Signature(2, 2)
    /\ txn.confirmWallet = "AgentA58"

\* ------------------------------------------------------------------------
\* run loop
\* ------------------------------------------------------------------------
\* C27: after the preflight the first cycle starts at once, without a sleep;
\* every cycle, completed or abandoned by an error, is followed by one sleep
\* and every sleep by the next cycle: once in the loop the program is always
\* in a cycle or in the sleep after one
C27_ScanSleepAlternate ==
    /\ pc = "getTokens" => prevPc \in {"getVaultForWallet", "sleeping"}
    /\ prevPc = "getVaultForWallet" /\ inLoop => pc = "getTokens"
    /\ prevPc = "sleeping" => pc = "getTokens"
    /\ inLoop => pc \in CyclePcs \cup {"sleeping"}

\* ------------------------------------------------------------------------
\* discovery
\* ------------------------------------------------------------------------
\* C28: every discovery request asks for the tokens with status 'migrated',
\* sorted by volume, with limit 50, and a cycle scans no more tokens than
\* discovery returned, which is no more than the limit
C28_DiscoveryRequest ==
    "getTokens" \in everCalled =>
        /\ discovery = [status |-> "migrated", sort |-> "volume", limit |-> 50]
        /\ retrievals <= tokens
        /\ tokenIdx <= tokens
        /\ tokens <= discovery.limit
        /\ tokens <= 50

C28_Witness ==
    /\ discovery.limit = 50
    /\ tokens = MaxTokens
    /\ retrievals = tokens
    /\ pc = "sleeping"

\* ------------------------------------------------------------------------
\* abandoned calls
\* ------------------------------------------------------------------------
\* what main() and scanAndLiquidate hold and have printed
loopVars ==
    <<pc, exitCode, inLoop, startupOut, everCalled, cycleVars, minLevel, vaultCreator,
      agent, vault, link, linkHelp, linkChecked, discovery, config, prevPc, prevOut>>

\* the step of the executor that makes the wrapped call fn
StepOf(fn) == IF fn = "buildLiquidateTransaction" THEN "build" ELSE "confirm"

C30_OneUnresolved == unresolved <= 1

\* ------------------------------------------------------------------------
\* sort-order check of the end-to-end test
\* ------------------------------------------------------------------------
\* healthOrder.indexOf(health): the index from 0, -1 when health is not in
\* the array
indexOf(health) ==
    IF \E k \in 1..Len(healthOrder) : healthOrder[k] = health
    THEN TierIdx(health) - 1
    ELSE 0 - 1

\* the loop of the test leaves sorted = true
SortAccepted(P) ==
    \A i \in 2..Len(P) : ~(indexOf(P[i]) < indexOf(P[i - 1]))

\* C31: on every position list the sort-order check of the end-to-end test
\* accepts, lists with positions of health 'none' included, the traversal
\* that breaks at the first position that is not liquidatable attempts
\* every liquidatable position of the list
C31_AcceptedListsFullyAttempted ==
    SortAccepted(positions) /\ TraversalDone => Attempted = FullScan(positions)

\* ------------------------------------------------------------------------
\* records of the attempts
\* ------------------------------------------------------------------------
\* no attempt is under way in the cycle
BetweenAttempts == pc \in {"getAllLoanPositions", "sleeping"} \/ (pc = "exited" /\ inLoop)

\* C32: with info records enabled, every executor invocation comes right
\* after one LIQUIDATABLE record for its position, no LIQUIDATABLE record is
\* left without its attempt, and in a cycle the LIQUIDATABLE records are as
\* many as the LIQUIDATED and the LIQUIDATION FAILED records together
C32_RecordsBalance ==
    AtOrAbove("info") /\ InCycle =>
        /\ pc = "build" => out["LIQUIDATABLE"] = prevOut["LIQUIDATABLE"] + 1
        /\ pc \in AttemptPcs =>
             out["LIQUIDATABLE"] = out["LIQUIDATED"] + out["FAILED"] + 1
        /\ BetweenAttempts =>
             out["LIQUIDATABLE"] = out["LIQUIDATED"] + out["FAILED"]

\* ------------------------------------------------------------------------
\* cycle markers
\* ------------------------------------------------------------------------
\* the 'scan cycle end' and 'scan cycle error' records of the cycle
Closings == out["cycleEnd"] + out["cycleError"]

\* C33: with debug records enabled, every 'scan cycle start' marker is
\* followed before the next one by exactly one closing record, the 'scan
\* cycle end' marker or a 'scan cycle error' record: a cycle under way has
\* none yet, a cycle that is over has one, and no cycle is left without
C33_CycleMarkers ==
    minLevel = "debug" /\ InCycle =>
        /\ out["cycleStart"] = 1
        /\ pc \in CyclePcs \ {"getTokens"} => Closings = 0
        /\ pc \in {"sleeping", "getTokens", "exited"} => Closings = 1
        /\ pc # "blocked"

\* ------------------------------------------------------------------------
\* order of the preflight
\* ------------------------------------------------------------------------
\* the preflight lookup made in the last step threw
LookupThrew ==
    /\ lastCall.fn \in {"getVault", "getVaultForWallet"}
    /\ lastCall.got.kind # "ok"

SecretConfigured == ~Unset(env, "SOLANA_PRIVATE_KEY")

\* the keypair the claim gives a secret: its JSON array when that is a
\* secret key, no keypair for other JSON, and otherwise the base58 decoding
\* of the text when that is a secret key; "" when there is none
KeyClaimed(secret) ==
    LET parsed == JSONparse(secret)
        asArray == fromSecretKey(Uint8ArrayFrom(parsed.items))
        plain == decodeBase58(secret)
        asBase58 == fromSecretKey(plain.bytes)
    IN IF parsed.kind = "array" /\ asArray.ok THEN asArray.key
       ELSE IF parsed.kind \in {"number", "object"} THEN ""
       ELSE IF plain.ok /\ asBase58.ok THEN asBase58.key
       ELSE ""

\* C35: a configured secret key is parsed as JSON first: an array is the
\* secret-key bytes, other JSON is fatal, text that is not JSON or an array
\* that is no secret key is decoded as base58; when no keypair comes out the
\* process exits before any vault lookup and no fresh keypair is generated
C35_SecretKeyParsing ==
    KeypairChosen /\ SecretConfigured =>
        LET claimed == KeyClaimed(env["SOLANA_PRIVATE_KEY"])
        IN IF claimed # ""
           THEN agent = claimed
           ELSE /\ pc = "exited"
                /\ exitCode = 1
                /\ everCalled = {}
                /\ agent = ""

\* ------------------------------------------------------------------------
\* decodeBase58
\* ------------------------------------------------------------------------
OverAlphabet(s) == \A k \in 1..Len(s) : B58indexOf(s[k]) >= 0

\* the number a text over the alphabet denotes in base 58
RECURSIVE Base58Number(_)
Base58Number(s) ==
    IF s = <<>> THEN 0
    ELSE 58 * Base58Number(SubSeq(s, 1, Len(s) - 1)) + B58indexOf(s[Len(s)])

\* the bytes of a number, most significant first; none for zero
RECURSIVE BigEndian(_)
BigEndian(n) == IF n = 0 THEN <<>> ELSE Append(BigEndian(n \div 256), n % 256)

\* the number of '1' characters a text starts with
OnesPrefix(s) ==
    CHOOSE n \in 0..Len(s) :
        /\ \A k \in 1..n : s[k] = "1"
        /\ n < Len(s) => s[n + 1] # "1"

\* the first character of a text that is not in the alphabet
FirstInvalid(s) ==
    s[CHOOSE k \in 1..Len(s) :
        /\ B58indexOf(s[k]) < 0
        /\ \A j \in 1..(k - 1) : B58indexOf(s[j]) >= 0]

\* C36: for a text over the base58 alphabet decodeBase58 returns one zero
\* byte per leading '1' followed by the big-endian bytes of the base-58
\* number of the text, every byte in 0..255; for any other text it throws on
\* the first character that is not in the alphabet
C36_DecodeBase58 ==
    pc = "returned" =>
        IF OverAlphabet(text)
        THEN /\ decoded.ok
             /\ decoded.bytes = Zeros(OnesPrefix(text)) \o BigEndian(Base58Number(text))
             /\ \A k \in 1..Len(decoded.bytes) : decoded.bytes[k] \in 0..255
             /\ text = <<>> => decoded.bytes = <<>>
        ELSE /\ ~decoded.ok
             /\ decoded.invalid = FirstInvalid(text)

\* a text with a leading '1' and a number of two bytes has been decoded
C36_Witness ==
    /\ pc = "returned"
    /\ decoded.ok
    /\ Len(text) = 3
    /\ text[1] = "1"
    /\ Len(decoded.bytes) = 3
    /\ decoded.bytes[1] = 0
    /\ decoded.bytes[2] > 0

=============================================================================
